---------------------------- MODULE Spec2Model ----------------------------
(***************************************************************************)
(* CORgiS-API: middleware between a graphitizer microcontroller (reached   *)
(* over one serial port) and an HTTP user interface.                       *)
(*                                                                         *)
(* The model has two layers.                                               *)
(*   - The pure functions of the program (outputIsValid, outputToMap,      *)
(*     URLValueValid, URLParamValid and the strconv/strings/regexp calls   *)
(*     they make) are operators over strings.  A string is a sequence of   *)
(*     one-character strings, so that prefix, suffix, split and digit      *)
(*     parsing are computed, not assumed.                                  *)
(*   - The goroutines (DB_routine and one goroutine per HTTP request)      *)
(*     are processes that share the package-level serial handle `arduino`. *)
(*     One action is one step between two accesses of shared state.        *)
(*                                                                         *)
(* The repository holds two builds of the same package: src/main.go and    *)
(* src/handlers.go + src/unnamed/part_000.  They differ in outputIsValid   *)
(* (an extra upper length bound) and in how SetHandler treats a failed     *)
(* write.  The variable `build` selects the one a behaviour runs.          *)
(***************************************************************************)
EXTENDS Integers, Sequences, FiniteSets, TLC

(***************************************************************************)
(* Characters                                                              *)
(***************************************************************************)
Digits == <<"0", "1", "2", "3", "4", "5", "6", "7", "8", "9">>

Lowers == <<"a", "b", "c", "d", "e", "f", "g", "h", "i", "j", "k", "l", "m",
            "n", "o", "p", "q", "r", "s", "t", "u", "v", "w", "x", "y", "z">>

Uppers == <<"A", "B", "C", "D", "E", "F", "G", "H", "I", "J", "K", "L", "M",
            "N", "O", "P", "Q", "R", "S", "T", "U", "V", "W", "X", "Y", "Z">>

\* index of character c in the table tab, 0 when absent
IndexIn(c, tab) ==
    IF \E i \in 1..Len(tab) : tab[i] = c
    THEN CHOOSE i \in 1..Len(tab) : tab[i] = c
    ELSE 0

\* regexp class \w : [0-9A-Za-z_]
WordChars ==
    {Digits[i] : i \in 1..10} \cup {Lowers[i] : i \in 1..26}
        \cup {Uppers[i] : i \in 1..26} \cup {"_"}

IsWord(c) == c \in WordChars

(***************************************************************************)
(* strings.HasPrefix, strings.HasSuffix, strings.Split on one separator    *)
(***************************************************************************)
HasPrefix(s, prefix) ==
    /\ Len(s) >= Len(prefix)
    /\ SubSeq(s, 1, Len(prefix)) = prefix

HasSuffix(s, suffix) ==
    /\ Len(s) >= Len(suffix)
    /\ SubSeq(s, Len(s) - Len(suffix) + 1, Len(s)) = suffix

\* index of the first sep at or after i; Len(s) + 1 when there is none
NextSep(s, sep, i) ==
    IF \E j \in i..Len(s) : s[j] = sep
    THEN CHOOSE j \in i..Len(s) :
             s[j] = sep /\ \A k \in i..(j - 1) : s[k] # sep
    ELSE Len(s) + 1

\* strings.Split(s, sep) for a one-character sep: one piece more than there
\* are separators, the pieces between them, empty pieces kept.
RECURSIVE SplitFrom(_, _, _)
SplitFrom(s, sep, i) ==
    IF NextSep(s, sep, i) > Len(s) THEN <<SubSeq(s, i, Len(s))>>
    ELSE <<SubSeq(s, i, NextSep(s, sep, i) - 1)>>
             \o SplitFrom(s, sep, NextSep(s, sep, i) + 1)

Split(s, sep) == SplitFrom(s, sep, 1)

(***************************************************************************)
(* strconv.ParseInt(s, base, 64) for base 10 and 16.  The result is        *)
(* [err |-> TRUE] or [err |-> FALSE, val |-> n].  The strings of the model *)
(* have at most four digits, so the 64-bit range error cannot arise and is *)
(* not modelled.                                                           *)
(***************************************************************************)
\* value of one digit character, 99 when it is no digit or letter
DigitVal(c) ==
    IF IndexIn(c, Digits) > 0 THEN IndexIn(c, Digits) - 1
    ELSE IF IndexIn(c, Lowers) > 0 THEN IndexIn(c, Lowers) + 9
    ELSE IF IndexIn(c, Uppers) > 0 THEN IndexIn(c, Uppers) + 9
    ELSE 99

RECURSIVE ParseUintFrom(_, _, _, _)
ParseUintFrom(s, base, i, acc) ==
    IF i > Len(s) THEN [err |-> FALSE, val |-> acc]
    ELSE IF DigitVal(s[i]) >= base THEN [err |-> TRUE]
    ELSE ParseUintFrom(s, base, i + 1, acc * base + DigitVal(s[i]))

ParseUint(s, base) ==
    IF Len(s) = 0 THEN [err |-> TRUE]
    ELSE ParseUintFrom(s, base, 1, 0)

ParseInt(s, base) ==
    IF Len(s) = 0 THEN [err |-> TRUE]
    ELSE IF s[1] = "+" THEN ParseUint(Tail(s), base)
    ELSE IF s[1] = "-" THEN
        LET u == ParseUint(Tail(s), base)
        IN  IF u.err THEN u ELSE [err |-> FALSE, val |-> 0 - u.val]
    ELSE ParseUint(s, base)


(***************************************************************************)
(* The parameter registry                                                  *)
(***************************************************************************)
VxxParams ==
    << <<"V","0","0">>, <<"V","0","1">>, <<"V","0","2">>, <<"V","0","3">>,
       <<"V","0","4">>, <<"V","0","5">>, <<"V","0","6">>, <<"V","0","7">>,
       <<"V","0","8">> >>

TxxParams ==
    << <<"T","0","1">>, <<"T","0","2">>, <<"T","0","3">>, <<"T","0","4">>,
       <<"T","0","5">>, <<"T","0","6">>, <<"T","0","7">>, <<"T","0","8">> >>

pumpParams ==
    << <<"P","U","M","P","_","O","N">>, <<"P","U","M","P","_","O","F","F">> >>

\* the exclusive upper bounds of URLValueValid
VxxLimit == 256

TxxLimit == 1000

stringInSlice(a, list) == \E i \in 1..Len(list) : list[i] = a

URLParamValid(s) ==
    \/ stringInSlice(s, VxxParams)
    \/ stringInSlice(s, TxxParams)
    \/ stringInSlice(s, pumpParams)

\* URLValueValid with the level bound included (valueToInt <= 256)
URLValueValidInclusive(p, v) ==
    IF Len(v) > 0 THEN
        LET r == ParseInt(v, 10)
        IN  IF r.err THEN FALSE
            ELSE IF stringInSlice(p, VxxParams) /\ r.val >= 0 /\ r.val <= VxxLimit
                 THEN TRUE
            ELSE IF stringInSlice(p, TxxParams) /\ r.val >= 0 /\ r.val < TxxLimit
                 THEN TRUE
            ELSE FALSE
    ELSE IF stringInSlice(p, pumpParams) THEN TRUE
    ELSE FALSE

\* URLValueValid without the lower bound (valueToInt >= 0 dropped)
URLValueValidNoFloor(p, v) ==
    IF Len(v) > 0 THEN
        LET r == ParseInt(v, 10)
        IN  IF r.err THEN FALSE
            ELSE IF stringInSlice(p, VxxParams) /\ r.val < VxxLimit
                 THEN TRUE
            ELSE IF stringInSlice(p, TxxParams) /\ r.val < TxxLimit
                 THEN TRUE
            ELSE FALSE
    ELSE IF stringInSlice(p, pumpParams) THEN TRUE
    ELSE FALSE

\* URLValueValid that accepts a toggle whatever its value
URLValueValidAnyToggle(p, v) ==
    IF stringInSlice(p, pumpParams) THEN TRUE
    ELSE IF Len(v) > 0 THEN
        LET r == ParseInt(v, 10)
        IN  IF r.err THEN FALSE
            ELSE IF stringInSlice(p, VxxParams) /\ r.val >= 0 /\ r.val < VxxLimit
                 THEN TRUE
            ELSE IF stringInSlice(p, TxxParams) /\ r.val >= 0 /\ r.val < TxxLimit
                 THEN TRUE
            ELSE FALSE
    ELSE FALSE

URLValueValid(p, v) ==
    IF Len(v) > 0 THEN
        LET r == ParseInt(v, 10)
        IN  IF r.err THEN FALSE
            ELSE IF stringInSlice(p, VxxParams) /\ r.val >= 0 /\ r.val < VxxLimit
                 THEN TRUE
            ELSE IF stringInSlice(p, TxxParams) /\ r.val >= 0 /\ r.val < TxxLimit
                 THEN TRUE
            ELSE FALSE
    ELSE IF stringInSlice(p, pumpParams) THEN TRUE
    ELSE FALSE

(***************************************************************************)
(* re = \w{3,4}=\w{1,4};  and  len(re.FindAll(s, -1))                      *)
(***************************************************************************)
AllWord(s, i, n) == \A k \in i..(i + n - 1) : IsWord(s[k])

\* a value \w{m} followed by ";" starting at j: the index after the ";", or 0
ValueAt(s, j, m) ==
    IF j + m <= Len(s) /\ AllWord(s, j, m) /\ s[j + m] = ";"
    THEN j + m + 1 ELSE 0

\* the greedy choice among \w{4}, \w{3}, \w{2}, \w{1}
ValueEnd(s, j) ==
    IF ValueAt(s, j, 4) > 0 THEN ValueAt(s, j, 4)
    ELSE IF ValueAt(s, j, 3) > 0 THEN ValueAt(s, j, 3)
    ELSE IF ValueAt(s, j, 2) > 0 THEN ValueAt(s, j, 2)
    ELSE ValueAt(s, j, 1)

\* a name \w{n} followed by "=" and a value, starting at i
NameAt(s, i, n) ==
    IF i + n <= Len(s) /\ AllWord(s, i, n) /\ s[i + n] = "="
    THEN ValueEnd(s, i + n + 1) ELSE 0

\* a match of re starting exactly at i: the index after the match, or 0
MatchAt(s, i) ==
    IF NameAt(s, i, 4) > 0 THEN NameAt(s, i, 4) ELSE NameAt(s, i, 3)

\* index of the leftmost match starting at or after i; 0 when there is none
NextMatch(s, i) ==
    IF \E k \in i..Len(s) : MatchAt(s, k) > 0
    THEN CHOOSE k \in i..Len(s) :
             MatchAt(s, k) > 0 /\ \A j \in i..(k - 1) : MatchAt(s, j) = 0
    ELSE 0

\* number of successive non-overlapping leftmost matches from index i on
RECURSIVE FindAllFrom(_, _)
FindAllFrom(s, i) ==
    IF NextMatch(s, i) = 0 THEN 0
    ELSE 1 + FindAllFrom(s, MatchAt(s, NextMatch(s, i)))

FindAllCount(s) == FindAllFrom(s, 1)

(***************************************************************************)
(* outputIsValid, in its two builds                                        *)
(***************************************************************************)
\* len(s) > 168
MinLen == 168

\* len(s) < 215 (part_000 only)
MaxLen == 215

\* len(re.FindAll(...)) >= 28
MinFields == 28

Sentinel == <<"V", "0", "0", "=">>

\* outputIsValid of main.go without the count of segments
outputIsValidMainNoCount(s) ==
    IF Len(s) > MinLen THEN
        /\ SubSeq(s, 1, 4) = Sentinel
        /\ HasSuffix(s, <<";">>)
    ELSE FALSE

outputIsValidMain(s) ==
    IF Len(s) > MinLen THEN
        /\ SubSeq(s, 1, 4) = Sentinel
        /\ HasSuffix(s, <<";">>)
        /\ FindAllCount(s) >= MinFields
    ELSE FALSE

\* outputIsValid of part_000 without the check of the terminator
outputIsValidHandlersNoSuffix(s) ==
    IF Len(s) > MinLen /\ Len(s) < MaxLen THEN
        /\ SubSeq(s, 1, 4) = Sentinel
        /\ FindAllCount(s) >= MinFields
    ELSE FALSE

outputIsValidHandlers(s) ==
    IF Len(s) > MinLen /\ Len(s) < MaxLen THEN
        /\ SubSeq(s, 1, 4) = Sentinel
        /\ HasSuffix(s, <<";">>)
        /\ FindAllCount(s) >= MinFields
    ELSE FALSE

outputIsValid(b, s) ==
    IF b = "main" THEN outputIsValidMain(s) ELSE outputIsValidHandlers(s)

(***************************************************************************)
(* outputToMap: [panic |-> TRUE] when a check(err) or an index panics,     *)
(* otherwise [panic |-> FALSE, res |-> the map], a function from field     *)
(* names to integers.                                                      *)
(***************************************************************************)
EmptyMap == [x \in {} |-> 0]

MapPut(m, k, v) == [x \in (DOMAIN m) \cup {k} |-> IF x = k THEN v ELSE m[x]]

\* every field parsed in base 10
FieldBaseDecimal(i) == 10

\* base of the field i: hex when the segment starts with "V", else decimal
FieldBase(i) == IF HasPrefix(i, <<"V">>) THEN 16 ELSE 10

RECURSIVE outputToMapFrom(_, _, _)
outputToMapFrom(splitted_s, k, res) ==
    IF k > Len(splitted_s) - 1 THEN [panic |-> FALSE, res |-> res]
    ELSE
        LET i == splitted_s[k]
            splitted_i == Split(i, "=")
        IN  IF Len(splitted_i) < 2 THEN [panic |-> TRUE]
            ELSE
                LET num == ParseInt(splitted_i[2], FieldBase(i))
                IN  IF num.err THEN [panic |-> TRUE]
                    ELSE outputToMapFrom(splitted_s, k + 1,
                                         MapPut(res, splitted_i[1], num.val))

outputToMap(s) == outputToMapFrom(Split(s, ";"), 1, EmptyMap)

(***************************************************************************)
(* The device's side of the wire.  The reply to <GET_ALL;> is one line     *)
(* "V00=..;V01=..; ... S01=..;PUMP=.;": the nine level fields in hex, the  *)
(* eight threshold fields, ten S fields and PUMP in decimal.  A line is    *)
(* described by a record and rendered to text, so that the program's       *)
(* validation and decoding work on the characters.                         *)
(***************************************************************************)
\* decimal text of a natural number, as the URL and the device write it
RECURSIVE DecNat(_)
DecNat(n) == IF n < 10 THEN <<Digits[n + 1]>>
             ELSE Append(DecNat(n \div 10), Digits[(n % 10) + 1])

Dec(n) == IF n < 0 THEN <<"-">> \o DecNat(0 - n) ELSE DecNat(n)

HexDigit(d) == IF d < 10 THEN Digits[d + 1] ELSE Lowers[d - 9]

\* lower-case hex text of a natural number, as the device writes a level
RECURSIVE Hex(_)
Hex(n) == IF n < 16 THEN <<HexDigit(n)>>
          ELSE Append(Hex(n \div 16), HexDigit(n % 16))

\* text padded on the left with "0" to at least w characters
RECURSIVE PadLeft(_, _)
PadLeft(t, w) == IF Len(t) >= w THEN t ELSE PadLeft(<<"0">> \o t, w)

FieldName(letter, k) == <<letter, Digits[(k \div 10) + 1], Digits[(k % 10) + 1]>>

PumpName == <<"P", "U", "M", "P">>

\* the k-th field name of a reply line; fields past the 28th repeat as X..
NameOf(k) ==
    IF k <= 9 THEN FieldName("V", k - 1)
    ELSE IF k <= 17 THEN FieldName("T", k - 9)
    ELSE IF k <= 27 THEN FieldName("S", k - 17)
    ELSE IF k = 28 THEN PumpName
    ELSE FieldName("X", k - 28)

\* the value text of the k-th field of the line described by g
ValueOf(g, k) ==
    IF k = g.badAt THEN <<"z", "z">>
    ELSE IF k <= 9 THEN PadLeft(Hex(g.lvl), g.w)
    ELSE IF k <= 17 THEN PadLeft(Dec(g.thr), g.w)
    ELSE IF k <= 27 THEN PadLeft(<<"0">>, g.w)
    ELSE IF k = 28 THEN Dec(g.pump)
    ELSE PadLeft(<<"0">>, g.w)

Segment(g, k) ==
    (IF k = 1 THEN g.head ELSE IF k = 28 THEN g.last ELSE NameOf(k))
        \o <<"=">> \o ValueOf(g, k) \o <<";">>

RECURSIVE Segments(_, _)
Segments(g, k) == IF k = 0 THEN <<>> ELSE Segments(g, k - 1) \o Segment(g, k)

\* g.n segments, then g.junk characters that belong to no segment, then
\* g.term (nothing, or a closing ";")
LineText(g) == Segments(g, g.n) \o [i \in 1..g.junk |-> "#"] \o g.term

V00 == <<"V", "0", "0">>

\* a well-formed snapshot: 28 fields, values padded to two characters
Snapshot(lvl, thr, pump) ==
    [n |-> 28, head |-> V00, last |-> PumpName, term |-> <<>>, junk |-> 0, w |-> 2,
     badAt |-> 0, lvl |-> lvl, thr |-> thr, pump |-> pump]

\* the lines the device is seen to send, by name.  Which of them answers a
\* given <GET_ALL;> is not constrained: a Scan may return any of them.
LineOf(id) ==
    CASE id = "A"    -> Snapshot(255, 80, 1)
      [] id = "B"    -> Snapshot(0, 0, 0)
      [] id = "S20"  -> [Snapshot(255, 80, 1) EXCEPT !.n = 20, !.junk = 60,
                                                     !.term = <<";">>]
      [] id = "ZZ"   -> [Snapshot(255, 80, 1) EXCEPT !.badAt = 18]
      [] id = "LONG" -> [Snapshot(255, 80, 1) EXCEPT !.w = 3]

DeviceLines == {"A", "B", "S20", "ZZ", "LONG"}

\* what scanner.Text() holds after a Scan that failed: the empty string
NoLine == "NIL"

TextOf(id) == IF id = NoLine THEN <<>> ELSE LineText(LineOf(id))

Builds == {"main", "handlers"}

\* outputIsValid and outputToMap on each of these lines, computed once
validOf == [b \in Builds |->
              [id \in DeviceLines \cup {NoLine} |-> outputIsValid(b, TextOf(id))]]

answerOf == [id \in DeviceLines \cup {NoLine} |-> outputToMap(TextOf(id))]

(***************************************************************************)
(* Requests of the HTTP layer: /set?param=..&value=.. and /getall          *)
(***************************************************************************)
PUMP_ON == pumpParams[1]

PUMP_OFF == pumpParams[2]

SetReq(param, value) == [op |-> "set", param |-> param, value |-> value]

GetReq == [op |-> "get", param |-> <<>>, value |-> <<>>]

NoReq == [op |-> "none", param |-> <<>>, value |-> <<>>]

LevelRequests == {SetReq(VxxParams[2], Dec(255)), SetReq(VxxParams[9], Dec(0))}

ThresholdRequests == {SetReq(TxxParams[1], Dec(999))}

ToggleRequests == {SetReq(PUMP_ON, <<>>), SetReq(PUMP_OFF, <<>>)}

GoodRequests == LevelRequests \cup ThresholdRequests \cup ToggleRequests

BadRequests ==
    { SetReq(<<"X","0","1">>, Dec(1)),        \* unknown parameter
      SetReq(VxxParams[2], Dec(256)),         \* level out of range
      SetReq(VxxParams[2], <<"a","b","c">>),  \* malformed
      SetReq(TxxParams[1], Dec(1000)),        \* threshold out of range
      SetReq(PUMP_ON, Dec(1)) }               \* a toggle takes no value

Requests == GoodRequests \cup BadRequests \cup {GetReq}

(***************************************************************************)
(* The process: DB_routine (task 0) and NumFg HTTP handler goroutines      *)
(* (tasks 1..NumFg), all using the package-level handle `arduino` with no  *)
(* lock around it.                                                         *)
(***************************************************************************)
NumFg == 1

Fg == 1..NumFg

DbTask == 0

Tasks == {DbTask} \cup Fg

VARIABLES
    build,      \* "main" (src/main.go) or "handlers" (handlers.go + part_000)
    arduino,    \* the serial handle: "open", or "broken" once the port failed
    wire,       \* replies waiting in the port's input buffer, oldest first:
                \* each entry is the task whose <GET_ALL;> the device answered
    crashed,    \* the process ended (panic outside a handler, or log.Fatal)
    dbpc,       \* DB_routine: "write", "reopen", "scan", "check"
    dbOut,      \* DB_routine: the line it scanned (a line name)
    sink,       \* the points DB_routine wrote to the database in its current
                \* cycle (line names, in order)
    pc,         \* handler f: "idle", "send", "poll", "scan", "check",
                \*            "done", "aborted"
    req,        \* handler f: its request
    out,        \* handler f: the line singleOutputRead scanned
    resp,       \* handler f: the bodies written to its ResponseWriter
    sent,       \* handler f: the Write calls that carried its command
    fn,         \* a call of one of the pure functions: its input, then its
                \* input and result (used by SpecCodec only)
    settled     \* the device has reached the state the requests in flight
                \* ask for and reports it from now on (used by SpecLive only)

vars == <<build, arduino, wire, crashed, dbpc, dbOut, sink,
          pc, req, out, resp, sent, fn, settled>>

dbVars == <<dbpc, dbOut, sink>>

fgVars == <<pc, req, out, resp, sent>>

ErrParam == "error: incorrect param!"

ErrValue == "error: incorrect value!"

ErrSend == "error: could not send a command to device, check if connected!"

ErrUnexpected == "error: something unexpected happened"

ErrorBody(text) == [kind |-> "error", body |-> text]

FrameBody(line) == [kind |-> "frame", body |-> line]

NoCall == [call |-> [kind |-> "none"], done |-> FALSE]

Init ==
    /\ build \in Builds
    /\ arduino = "open"
    /\ wire = <<>>
    /\ crashed = FALSE
    /\ dbpc = "write"
    /\ dbOut = NoLine
    /\ sink = <<>>
    /\ pc = [f \in Fg |-> "idle"]
    /\ req = [f \in Fg |-> NoReq]
    /\ out = [f \in Fg |-> NoLine]
    /\ resp = [f \in Fg |-> <<>>]
    /\ sent = [f \in Fg |-> <<>>]
    /\ fn = NoCall
    /\ settled = FALSE

(***************************************************************************)
(* setHandler / SetHandler and getHandler / GetHandler                     *)
(***************************************************************************)
\* the command without the PUMP branch
encodeAlwaysSet(param, value) ==
    <<"<", "S", "E", "T", "_">> \o param \o <<"=">> \o value \o <<";", ">">>

\* the command of a validated request
encode(param, value) ==
    IF HasPrefix(param, <<"P","U","M","P">>)
    THEN <<"<">> \o param \o <<";", ">">>
    ELSE <<"<", "S", "E", "T", "_">> \o param \o <<"=">> \o value \o <<";", ">">>

\* the comparison as answer[param] >= valueToInt
levelConfirmedAtLeast(answer, param, valueToInt) ==
    /\ param \in DOMAIN answer
    /\ answer[param] >= valueToInt

\* answer[param] == valueToInt: a key the map lacks yields nil, equal to nothing
levelConfirmed(answer, param, valueToInt) ==
    /\ param \in DOMAIN answer
    /\ answer[param] = valueToInt

\* both toggles comparing PUMP with 1
toggleConfirmedBothOn(answer, param) ==
    \/ param = PUMP_ON  /\ PumpName \in DOMAIN answer /\ answer[PumpName] = 1
    \/ param = PUMP_OFF /\ PumpName \in DOMAIN answer /\ answer[PumpName] = 1

\* param == "PUMP_ON" && answer["PUMP"] == 1, param == "PUMP_OFF" && .. == 0
toggleConfirmed(answer, param) ==
    \/ param = PUMP_ON  /\ PumpName \in DOMAIN answer /\ answer[PumpName] = 1
    \/ param = PUMP_OFF /\ PumpName \in DOMAIN answer /\ answer[PumpName] = 0

\* the branch of setHandler that answers the request
policy(param) ==
    IF stringInSlice(param, VxxParams) THEN "level"
    ELSE IF stringInSlice(param, pumpParams) THEN "toggle"
    ELSE IF stringInSlice(param, TxxParams) THEN "threshold"
    ELSE "none"

\* the threshold branch polling until the field shows the requested value
confirmedThresholdLoop(r, answer) ==
    IF r.op = "get" THEN TRUE
    ELSE IF policy(r.param) = "toggle"
         THEN toggleConfirmed(answer, r.param)
    ELSE levelConfirmed(answer, r.param, ParseInt(r.value, 10).val)

\* whether the handler answers with the frame it just decoded
confirmed(r, answer) ==
    IF r.op = "get" THEN TRUE
    ELSE IF policy(r.param) = "level"
         THEN levelConfirmed(answer, r.param, ParseInt(r.value, 10).val)
    ELSE IF policy(r.param) = "toggle"
         THEN toggleConfirmed(answer, r.param)
    ELSE TRUE

\* a request arrives; setHandler validates it before anything else
Receive(f) ==
    /\ ~crashed
    /\ pc[f] = "idle"
    /\ \E r \in Requests :
        /\ req' = [req EXCEPT ![f] = r]
        /\ IF r.op = "get" THEN
               /\ pc' = [pc EXCEPT ![f] = "poll"]
               /\ resp' = resp
           ELSE IF ~URLParamValid(r.param) THEN
               /\ pc' = [pc EXCEPT ![f] = "done"]
               /\ resp' = [resp EXCEPT ![f] = <<ErrorBody(ErrParam)>>]
           ELSE IF ~URLValueValid(r.param, r.value) THEN
               /\ pc' = [pc EXCEPT ![f] = "done"]
               /\ resp' = [resp EXCEPT ![f] = <<ErrorBody(ErrValue)>>]
           ELSE
               /\ pc' = [pc EXCEPT ![f] = "send"]
               /\ resp' = resp
    /\ UNCHANGED <<build, fn, settled, arduino, wire, crashed, dbVars, out, sent>>

\* whether the failed Write of the command panics: check(err) in main.go and
\* in the PUMP branch of handlers.go; the SET branch of handlers.go writes an
\* error body and goes on
sendPanics(b, param) == b = "main" \/ HasPrefix(param, <<"P","U","M","P">>)

\* arduino.Write(command), then the entry of the branch that answers: the
\* level branch parses the value (check), a parameter of no class is
\* answered with an error body
Send(f) ==
    /\ ~crashed
    /\ pc[f] = "send"
    /\ sent' = [sent EXCEPT ![f] =
                   Append(@, [cmd |-> encode(req[f].param, req[f].value),
                              ok |-> arduino = "open"])]
    /\ LET failed == arduino # "open"
           said   == IF failed THEN Append(resp[f], ErrorBody(ErrSend))
                     ELSE resp[f]
       IN  IF failed /\ sendPanics(build, req[f].param) THEN
               /\ pc' = [pc EXCEPT ![f] = "aborted"]
               /\ resp' = resp
           ELSE IF policy(req[f].param) = "level"
                   /\ ParseInt(req[f].value, 10).err THEN
               /\ pc' = [pc EXCEPT ![f] = "aborted"]
               /\ resp' = [resp EXCEPT ![f] = said]
           ELSE IF policy(req[f].param) = "none" THEN
               /\ pc' = [pc EXCEPT ![f] = "done"]
               /\ resp' = [resp EXCEPT ![f] =
                              Append(said, ErrorBody(ErrUnexpected))]
           ELSE
               /\ pc' = [pc EXCEPT ![f] = "poll"]
               /\ resp' = [resp EXCEPT ![f] = said]
    /\ UNCHANGED <<build, fn, settled, arduino, wire, crashed, dbVars, req, out>>

\* singleOutputRead: arduino.Write("<GET_ALL;>"); check(err)
PollWrite(f) ==
    /\ ~crashed
    /\ pc[f] = "poll"
    /\ IF arduino = "open" THEN
           /\ wire' = Append(wire, f)
           /\ pc' = [pc EXCEPT ![f] = "scan"]
       ELSE
           /\ wire' = wire
           /\ pc' = [pc EXCEPT ![f] = "aborted"]
    /\ UNCHANGED <<build, fn, settled, arduino, crashed, dbVars, req, out, resp, sent>>

\* singleOutputRead: scanner.Scan(); output := scanner.Text().  The Scan
\* takes the oldest line of the buffer, whoever asked for it; on a broken
\* port it fails at once and Text() is empty.
Scan(f) ==
    /\ ~crashed
    /\ pc[f] = "scan"
    /\ \/ /\ arduino = "open"
          /\ wire # <<>>
          /\ wire' = Tail(wire)
          /\ \E l \in DeviceLines : out' = [out EXCEPT ![f] = l]
       \/ /\ arduino = "broken"
          /\ wire' = wire
          /\ out' = [out EXCEPT ![f] = NoLine]
    /\ pc' = [pc EXCEPT ![f] = "check"]
    /\ UNCHANGED <<build, fn, settled, arduino, crashed, dbVars, req, resp, sent>>

\* the rest of singleOutputRead and the handler's use of its result:
\* an invalid line is read again; a valid one is decoded (a panic of
\* outputToMap ends the handler, net/http recovers it) and either answers
\* the request or is polled again.
Check(f) ==
    /\ ~crashed
    /\ pc[f] = "check"
    /\ out' = [out EXCEPT ![f] = NoLine]
    /\ IF ~validOf[build][out[f]] THEN
           /\ pc' = [pc EXCEPT ![f] = "poll"]
           /\ resp' = resp
       ELSE IF answerOf[out[f]].panic THEN
           /\ pc' = [pc EXCEPT ![f] = "aborted"]
           /\ resp' = resp
       ELSE IF confirmed(req[f], answerOf[out[f]].res) THEN
           /\ pc' = [pc EXCEPT ![f] = "done"]
           /\ resp' = [resp EXCEPT ![f] = Append(@, FrameBody(out[f]))]
       ELSE
           /\ pc' = [pc EXCEPT ![f] = "poll"]
           /\ resp' = resp
    /\ UNCHANGED <<build, fn, settled, arduino, wire, crashed, dbVars, req, sent>>

\* the handler has returned (or panicked); the server takes the next request
Finish(f) ==
    /\ ~crashed
    /\ pc[f] \in {"done", "aborted"}
    /\ pc' = [pc EXCEPT ![f] = "idle"]
    /\ req' = [req EXCEPT ![f] = NoReq]
    /\ resp' = [resp EXCEPT ![f] = <<>>]
    /\ sent' = [sent EXCEPT ![f] = <<>>]
    /\ UNCHANGED <<build, fn, settled, arduino, wire, crashed, dbVars, out>>

(***************************************************************************)
(* DB_routine: the telemetry loop                                          *)
(***************************************************************************)
\* a cycle starts: arduino.Write("<GET_ALL;>"); on an error the loop goes to
\* reopen the port
DbWrite ==
    /\ ~crashed
    /\ dbpc = "write"
    /\ IF arduino = "open" THEN
           /\ wire' = Append(wire, DbTask)
           /\ dbpc' = "scan"
       ELSE
           /\ wire' = wire
           /\ dbpc' = "reopen"
    /\ sink' = <<>>
    /\ UNCHANGED <<build, fn, settled, arduino, crashed, dbOut, fgVars>>

\* arduino, err = serial.Open(findArduinoPort(), mode); check(err).  The new
\* handle has an empty input buffer.  A failed Open (or a failed port listing
\* inside findArduinoPort) panics in the goroutine and ends the process.  The
\* loop goes on to Scan without writing <GET_ALL;> again.
DbReopen ==
    /\ ~crashed
    /\ dbpc = "reopen"
    /\ \/ /\ arduino' = "open"
          /\ wire' = <<>>
          /\ dbpc' = "scan"
          /\ crashed' = crashed
       \/ /\ crashed' = TRUE
          /\ UNCHANGED <<arduino, wire, dbpc>>
    /\ UNCHANGED <<build, fn, settled, dbOut, sink, fgVars>>

\* scanner.Scan(); output := scanner.Text()
DbScan ==
    /\ ~crashed
    /\ dbpc = "scan"
    /\ \/ /\ arduino = "open"
          /\ wire # <<>>
          /\ wire' = Tail(wire)
          /\ \E l \in DeviceLines : dbOut' = l
       \/ /\ arduino = "broken"
          /\ wire' = wire
          /\ dbOut' = NoLine
    /\ dbpc' = "check"
    /\ UNCHANGED <<build, fn, settled, arduino, crashed, sink, fgVars>>

\* a valid line is decoded and written to the database: a panic of
\* outputToMap and a failed con.Write (log.Fatal) end the process; an invalid
\* line is logged.  Then the loop sleeps and starts its next cycle.
DbCheck ==
    /\ ~crashed
    /\ dbpc = "check"
    /\ dbOut' = NoLine
    /\ IF ~validOf[build][dbOut] THEN
           /\ dbpc' = "write"
           /\ UNCHANGED <<sink, crashed>>
       ELSE IF answerOf[dbOut].panic THEN
           /\ crashed' = TRUE
           /\ UNCHANGED <<sink, dbpc>>
       ELSE
           \/ /\ sink' = Append(sink, dbOut)
              /\ dbpc' = "write"
              /\ crashed' = crashed
           \/ /\ crashed' = TRUE
              /\ UNCHANGED <<sink, dbpc>>
    /\ UNCHANGED <<build, fn, settled, arduino, wire, fgVars>>

(***************************************************************************)
(* The environment: the port fails (the device is unplugged or resets);    *)
(* what waited in its buffer is lost.                                      *)
(***************************************************************************)
Unplug ==
    /\ ~crashed
    /\ arduino = "open"
    /\ arduino' = "broken"
    /\ wire' = <<>>
    /\ UNCHANGED <<build, fn, settled, crashed, dbVars, fgVars>>

Next ==
    \/ \E f \in Fg : Receive(f)
    \/ \E f \in Fg : Send(f)
    \/ \E f \in Fg : PollWrite(f)
    \/ \E f \in Fg : Scan(f)
    \/ \E f \in Fg : Check(f)
    \/ \E f \in Fg : Finish(f)
    \/ DbWrite
    \/ DbReopen
    \/ DbScan
    \/ DbCheck
    \/ Unplug

Spec == Init /\ [][Next]_vars

(***************************************************************************)
(* SpecCodec: the pure functions applied to drawn inputs.  The initial     *)
(* state holds an input; the one step applies the function to it.          *)
(***************************************************************************)
\* how far past the ends of 0..TxxLimit the drawn values reach
ValueSlack == 3

\* value texts that are no decimal integer
NonNumeric ==
    { <<"a","b","c">>, <<"1","a">>, <<"1",".","5">>, <<"0","x","1","f">>,
      <<"1","e","2">>, <<" ","1">>, <<"-","-","1">>, <<"1","_","0">>, <<"-">> }

ValueParams == {VxxParams[1], VxxParams[9], TxxParams[1], TxxParams[8]}

\* URLValueValid(p, v): v is the decimal text of n, or a non-numeric text
ValueCalls ==
    [kind : {"value"}, p : ValueParams, numeric : {TRUE},
     n : (0 - ValueSlack)..(TxxLimit + ValueSlack), text : {<<>>}]
    \cup
    [kind : {"value"}, p : ValueParams, numeric : {FALSE},
     n : {0}, text : NonNumeric]

ValueText(c) == IF c.numeric THEN Dec(c.n) ELSE c.text

\* outputIsValid(s): s is the text of a described line
LineCalls ==
    [kind : {"line"},
     g : [n : {20, 27, 28, 29},
          head : {V00, <<"V","0","1">>, <<"v","0","0">>},
          last : {PumpName, <<"P","M","P">>},
          term : {<<>>, <<";">>},
          junk : {0, 2},
          w : {1, 2, 3},
          badAt : {0},
          lvl : {0},
          thr : {0},
          pump : {0}]]

\* outputToMap(s)[param]: s is a snapshot whose level fields show lvl in hex
LevelCalls ==
    [kind : {"level"}, param : {VxxParams[1], VxxParams[2], VxxParams[9]},
     lvl : 0..(VxxLimit - 1), w : {1, 2}]

\* URLValueValid(p, v) for a parameter of each class and a value that is
\* empty, an integer text or no integer; then the ParseInt of the level
\* branch on the same value
PresenceParams ==
    {VxxParams[1], VxxParams[9], TxxParams[1], PUMP_ON, PUMP_OFF}

PresenceTexts ==
    { <<>>, <<"0">>, <<"1">>, <<"2","5","5">>, <<"9","9","9">>, <<"+","5">>,
      <<"-","1">>, <<"a","b","c">>, <<" ">>, <<"O","N">> }

PresenceCalls == [kind : {"presence"}, p : PresenceParams, text : PresenceTexts]

InitCodec ==
    /\ build = "main"
    /\ arduino = "open"
    /\ wire = <<>>
    /\ crashed = FALSE
    /\ dbpc = "write"
    /\ dbOut = NoLine
    /\ sink = <<>>
    /\ pc = [f \in Fg |-> "idle"]
    /\ req = [f \in Fg |-> NoReq]
    /\ out = [f \in Fg |-> NoLine]
    /\ resp = [f \in Fg |-> <<>>]
    /\ sent = [f \in Fg |-> <<>>]
    /\ settled = FALSE
    /\ fn \in [call : ValueCalls \cup LineCalls \cup LevelCalls \cup PresenceCalls,
              done : {FALSE}]

mainVars == <<build, arduino, wire, crashed, dbpc, dbOut, sink,
              pc, req, out, resp, sent, settled>>

ApplyURLValueValid ==
    /\ ~fn.done
    /\ fn.call.kind = "value"
    /\ fn' = [call |-> fn.call, done |-> TRUE,
              ok |-> URLValueValid(fn.call.p, ValueText(fn.call))]
    /\ UNCHANGED mainVars

\* the validation of setHandler, then the ParseInt at the entry of its level
\* branch
ApplyValidation ==
    /\ ~fn.done
    /\ fn.call.kind = "presence"
    /\ fn' = [call |-> fn.call, done |-> TRUE,
              ok |-> URLValueValid(fn.call.p, fn.call.text),
              level |-> policy(fn.call.p) = "level",
              parses |-> ~ParseInt(fn.call.text, 10).err]
    /\ UNCHANGED mainVars

ApplyOutputIsValid ==
    /\ ~fn.done
    /\ fn.call.kind = "line"
    /\ \E s \in {LineText(fn.call.g)} :
           fn' = [call |-> fn.call, done |-> TRUE,
                  len |-> Len(s),
                  okMain |-> outputIsValid("main", s),
                  okHandlers |-> outputIsValid("handlers", s)]
    /\ UNCHANGED mainVars

\* the result of a level call: the decoded field and the integer of the request
LevelResult(call, valid, answer, valueToInt) ==
    LET has == ~answer.panic /\ call.param \in DOMAIN answer.res
    IN  [call |-> call, done |-> TRUE,
         valid |-> valid,
         panic |-> answer.panic \/ valueToInt.err,
         has |-> has,
         val |-> IF has THEN answer.res[call.param] ELSE -1,
         valueToInt |-> IF valueToInt.err THEN -1 ELSE valueToInt.val,
         same |-> has /\ ~valueToInt.err
                  /\ levelConfirmed(answer.res, call.param, valueToInt.val)]

\* the frame a level request polls, and the integer it compares against
ApplyOutputToMap ==
    /\ ~fn.done
    /\ fn.call.kind = "level"
    /\ \E s \in {LineText([Snapshot(fn.call.lvl, 80, 1) EXCEPT !.w = fn.call.w])} :
       \E answer \in {outputToMap(s)} :
           fn' = LevelResult(fn.call, outputIsValid("main", s), answer,
                             ParseInt(Dec(fn.call.lvl), 10))
    /\ UNCHANGED mainVars

NextCodec ==
    \/ ApplyURLValueValid
    \/ ApplyOutputIsValid
    \/ ApplyOutputToMap
    \/ ApplyValidation

SpecCodec == InitCodec /\ [][NextCodec]_vars

(***************************************************************************)
(* What a line shows, read off its description (not through the program's  *)
(* decoder): used to state the properties below.                           *)
(***************************************************************************)
\* the line ends with the terminator ";"
Terminated(g) == g.term = <<";">> \/ (g.junk = 0 /\ g.n > 0)

\* the line has the sentinel, the terminator and 28 name=value; segments
WellFormed(g) == g.n >= 28 /\ g.head = V00 /\ Terminated(g)

\* per build, the lines that are snapshots: well-formed, of a length the
\* build accepts, every value a number in its base
snapshotsOf ==
    [b \in Builds |->
        {id \in DeviceLines :
            /\ WellFormed(LineOf(id))
            /\ LineOf(id).badAt = 0
            /\ Len(TextOf(id)) > 168
            /\ (b = "handlers" => Len(TextOf(id)) < 215)}]

IsSnapshot(id) == id \in snapshotsOf[build]

\* the integer a good level or threshold request asks for
Wanted(r) == CHOOSE n \in 0..999 : Dec(n) = r.value

\* a handler took a step
Stepped(f) == <<pc[f], req[f], out[f], resp[f], sent[f]>>'
                  # <<pc[f], req[f], out[f], resp[f], sent[f]>>

\* the task is between its Write of a command and its Scan of a reply
AtScan(t) == IF t = DbTask THEN dbpc = "scan" ELSE pc[t] = "scan"

(***************************************************************************)
(* C1: round trips never interleave: at most one task is between writing   *)
(* its command and reading its reply, and the reply a task is about to     *)
(* read is the reply to its own command.                                   *)
(* The code has no lock around `arduino`: this is violated.                *)
(***************************************************************************)
C1_NoInterleave ==
    /\ Cardinality({t \in Tasks : AtScan(t)}) <= 1
    /\ \A t \in Tasks : AtScan(t) /\ wire # <<>> => Head(wire) = t

(***************************************************************************)
(* C2: a Set request with an unknown parameter or with a value that is out *)
(* of range or malformed for its parameter is answered with one error body *)
(* and nothing else happens: no Write, no Scan, the channel is unchanged.  *)
(***************************************************************************)
C2_Rejected(f) ==
    /\ pc[f] = "done"
    /\ Len(resp[f]) = 1
    /\ resp[f][1] \in {ErrorBody(ErrParam), ErrorBody(ErrValue)}
    /\ sent[f] = <<>>
    /\ out[f] = NoLine

C2_RejectedBeforeIO ==
    /\ [](\A f \in Fg : req[f] \in BadRequests => C2_Rejected(f))
    /\ [][\A f \in Fg : req'[f] \in BadRequests /\ Stepped(f)
              => wire' = wire /\ arduino' = arduino]_vars

C2_Witness ==
    \E f \in Fg : /\ req[f] = SetReq(<<"X","0","1">>, <<"1">>)
                  /\ resp[f] = <<ErrorBody(ErrParam)>>
                  /\ wire # <<>>

(***************************************************************************)
(* C3: a level request answers only with a frame that shows the requested  *)
(* integer for the requested field; on a frame that shows another value it *)
(* writes no body and polls again.                                         *)
(***************************************************************************)
C3_LevelExact ==
    /\ [](\A f \in Fg : req[f] \in LevelRequests =>
            \A i \in 1..Len(resp[f]) :
                resp[f][i].kind = "frame" =>
                    /\ IsSnapshot(resp[f][i].body)
                    /\ LineOf(resp[f][i].body).lvl = Wanted(req[f]))
    /\ [][\A f \in Fg :
            /\ req[f] \in LevelRequests
            /\ pc[f] = "check"
            /\ IsSnapshot(out[f])
            /\ LineOf(out[f]).lvl # Wanted(req[f])
            /\ Stepped(f)
            => pc'[f] = "poll" /\ resp'[f] = resp[f]]_vars

C3_Witness ==
    \E f \in Fg : /\ req[f] = SetReq(VxxParams[2], <<"2","5","5">>)
                  /\ pc[f] = "done"
                  /\ resp[f] = <<FrameBody("A")>>

(***************************************************************************)
(* C4: a toggle request ends at the first polled snapshot whose PUMP field *)
(* is the expected state (PUMP_ON: 1, PUMP_OFF: 0) and answers with it; on *)
(* a snapshot whose PUMP field differs it polls again and writes no body.  *)
(***************************************************************************)
Expected(r) == IF r.param = PUMP_ON THEN 1 ELSE 0

C4_ToggleFirstMatch ==
    [][\A f \in Fg :
         /\ req[f] \in ToggleRequests
         /\ pc[f] = "check"
         /\ IsSnapshot(out[f])
         /\ Stepped(f)
         => IF LineOf(out[f]).pump = Expected(req[f])
            THEN pc'[f] = "done" /\ resp'[f] = Append(resp[f], FrameBody(out[f]))
            ELSE pc'[f] = "poll" /\ resp'[f] = resp[f]]_vars

C4_Witness ==
    \E f \in Fg : /\ req[f] = SetReq(PUMP_OFF, <<>>)
                  /\ pc[f] = "done"
                  /\ resp[f] = <<FrameBody("B")>>

(***************************************************************************)
(* C5: a threshold request has no confirmation loop: the first snapshot    *)
(* read after the command is the answer, whatever value it shows.          *)
(***************************************************************************)
C5_ThresholdNoLoop ==
    [][\A f \in Fg :
         /\ req[f] \in ThresholdRequests
         /\ pc[f] = "check"
         /\ IsSnapshot(out[f])
         /\ Stepped(f)
         => pc'[f] = "done" /\ resp'[f] = Append(resp[f], FrameBody(out[f]))]_vars

C5_Witness ==
    \E f \in Fg : /\ req[f] \in ThresholdRequests
                  /\ pc[f] = "done"
                  /\ resp[f] = <<FrameBody("A")>>
                  /\ LineOf("A").thr # Wanted(req[f])

(***************************************************************************)
(* C6: a telemetry cycle whose reply line fails validation (fewer than 28  *)
(* segments, or no line at all) writes nothing to the database and the     *)
(* loop starts its next cycle.                                             *)
(***************************************************************************)
Malformed(id) == id = NoLine \/ ~WellFormed(LineOf(id))

C6_InvalidCycleSkipped ==
    [][/\ dbpc = "check"
       /\ Malformed(dbOut)
       /\ <<dbpc, dbOut, sink, crashed>>' # <<dbpc, dbOut, sink, crashed>>
       => sink' = sink /\ sink = <<>> /\ dbpc' = "write" /\ ~crashed']_vars

C6_Witness == dbpc = "check" /\ dbOut = "S20" /\ sink = <<>>

(***************************************************************************)
(* C7: outputIsValid (both builds) rejects every line of at most 168       *)
(* characters, every line that does not start with V00=, every line that   *)
(* does not end with ";" and every line with fewer than 28 name=value;     *)
(* segments.                                                               *)
(***************************************************************************)
C7_DecodeRejects ==
    fn.done /\ fn.call.kind = "line" =>
        LET g == fn.call.g
        IN  (\/ fn.len <= 168
             \/ g.head # <<"V","0","0">>
             \/ ~Terminated(g)
             \/ g.n < 28)
            => ~fn.okMain /\ ~fn.okHandlers

\* 27 segments, long enough, sentinel and terminator in place: rejected
C7_Witness ==
    /\ fn.done /\ fn.call.kind = "line"
    /\ fn.call.g.n = 27 /\ fn.len > 168 /\ fn.len < 215
    /\ fn.call.g.head = <<"V","0","0">> /\ Terminated(fn.call.g)
    /\ ~fn.okMain /\ ~fn.okHandlers

(***************************************************************************)
(* C8: URLValueValid rejects non-numeric texts, negative values and values *)
(* at or above the bound of the class (256 for a level, 1000 for a         *)
(* threshold), and accepts every integer from 0 to the bound minus one.    *)
(***************************************************************************)
C8_ValueRange ==
    fn.done /\ fn.call.kind = "value" =>
        LET c == fn.call
            bound == IF c.p[1] = "V" THEN 256 ELSE 1000
        IN  fn.ok = (c.numeric /\ 0 <= c.n /\ c.n <= bound - 1)

C8_Witness ==
    /\ fn.done /\ fn.call.kind = "value"
    /\ fn.call.p = <<"V","0","0">> /\ fn.call.numeric /\ fn.call.n = 255
    /\ fn.ok

(***************************************************************************)
(* C9: for every level v in 0..255, decoding a snapshot that shows the     *)
(* level field as hex(v) yields the integer v, the integer that Set parses *)
(* from the decimal text of v and compares the field with.                 *)
(***************************************************************************)
C9_HexRoundTrip ==
    fn.done /\ fn.call.kind = "level" =>
        /\ fn.valid
        /\ ~fn.panic
        /\ fn.has
        /\ fn.val = fn.call.lvl
        /\ fn.valueToInt = fn.call.lvl
        /\ fn.same

C9_Witness ==
    /\ fn.done /\ fn.call.kind = "level"
    /\ fn.call.lvl = 255 /\ fn.call.param = <<"V","0","1">>
    /\ fn.val = 255 /\ fn.valueToInt = 255

(***************************************************************************)
(* C10: a validated Set request writes one command, <NAME;> for a toggle   *)
(* and <SET_NAME=VALUE;> otherwise, on entry: none before Send, exactly    *)
(* that one from then on, and every <GET_ALL;> of the request comes after. *)
(***************************************************************************)
CommandOf(r) ==
    IF r \in ToggleRequests
    THEN <<"<">> \o r.param \o <<";", ">">>
    ELSE <<"<","S","E","T","_">> \o r.param \o <<"=">> \o r.value \o <<";", ">">>

C10_CommandOnce ==
    /\ [](\A f \in Fg : req[f] \in GoodRequests =>
            IF pc[f] = "send" THEN sent[f] = <<>>
            ELSE Len(sent[f]) = 1 /\ sent[f][1].cmd = CommandOf(req[f]))
    /\ [][\A f \in Fg : req[f].op = "set" /\ pc[f] = "poll" /\ pc'[f] = "scan"
              => Len(sent[f]) = 1 /\ sent'[f] = sent[f]]_vars

C10_Witness ==
    \E f \in Fg : /\ req[f] = SetReq(PUMP_ON, <<>>)
                  /\ pc[f] = "scan"
                  /\ sent[f] = <<[cmd |-> <<"<","P","U","M","P","_","O","N",";",">">>,
                                  ok |-> TRUE]>>

(***************************************************************************)
(* C11: the database is written once per telemetry cycle that decodes a    *)
(* valid frame and once per confirmed Set: the step that confirms a Set    *)
(* request with a frame writes that frame to the database, and the step    *)
(* that ends a telemetry cycle on a snapshot writes that snapshot, once.   *)
(* setHandler has no call of writeLineToDatabase: the Set half is          *)
(* violated.                                                               *)
(***************************************************************************)
C11_SinkPerCycleAndPerSet ==
    /\ [][\A f \in Fg :
            /\ req[f] \in GoodRequests
            /\ pc[f] = "check"
            /\ pc'[f] = "done"
            => sink' = Append(sink, out[f])]_vars
    /\ [][/\ dbpc = "check"
          /\ IsSnapshot(dbOut)
          /\ dbpc' = "write"
          => sink' = Append(sink, dbOut)]_vars

(***************************************************************************)
(* C12: a failed Write or Scan on the port does not end the task that made *)
(* it: a handler that finds the port broken does not abort, DB_routine     *)
(* does not end the process, and after the port is reopened the round trip *)
(* starts again with its Write: no task waits for a reply to a command     *)
(* that was not written.                                                   *)
(* check(err) panics in the handlers and after a failed reopen, and        *)
(* DB_routine goes from the reopen straight to its Scan: violated.         *)
(***************************************************************************)
C12_ChannelFailureRetried ==
    /\ [][\A f \in Fg :
            /\ arduino = "broken"
            /\ pc[f] \in {"send", "poll", "scan"}
            /\ Stepped(f)
            => pc'[f] # "aborted"]_vars
    /\ [][dbpc = "reopen" /\ <<dbpc, crashed>>' # <<dbpc, crashed>>
            => dbpc' = "write" /\ ~crashed']_vars
    /\ [][\A f \in Fg : pc'[f] = "scan" /\ pc[f] # "scan"
            => arduino = "open"]_vars

(***************************************************************************)
(* C13: while a level or toggle request polls, a line that cannot be       *)
(* decoded (it fails validation, or it passes validation with a field that *)
(* is no number) is read again: the request neither ends nor answers, and  *)
(* every frame it answers with is a snapshot.                              *)
(* outputToMap panics on a field that does not parse: violated.            *)
(***************************************************************************)
C13_DecodeFailureRetried ==
    /\ [][\A f \in Fg :
            /\ req[f] \in LevelRequests \cup ToggleRequests
            /\ pc[f] = "check"
            /\ ~IsSnapshot(out[f])
            /\ Stepped(f)
            => pc'[f] = "poll" /\ resp'[f] = resp[f]]_vars
    /\ [](\A f \in Fg : req[f] \in LevelRequests \cup ToggleRequests =>
            \A i \in 1..Len(resp[f]) :
                resp[f][i].kind = "frame" => IsSnapshot(resp[f][i].body))

(***************************************************************************)
(* C14: DB_routine never ends: whatever line it reads, and whether the     *)
(* port or the database write fails, the process goes on.                  *)
(* A failed reopen and a field that does not parse panic in the goroutine, *)
(* a failed database write calls log.Fatal: violated.                      *)
(***************************************************************************)
C14_TelemetryNeverEnds == ~crashed

(***************************************************************************)
(* C15: in every task Writes and Scans alternate: a step that writes a     *)
(* command (the Set command included) leaves the task waiting for one      *)
(* reply line, and a task comes to wait for a reply only by writing.       *)
(* setHandler writes its command and then <GET_ALL;> with no Scan between, *)
(* and DB_routine scans after a reopen without writing: violated.          *)
(***************************************************************************)
C15_WriteReadAlternate ==
    /\ [][\A f \in Fg :
            /\ pc[f] \in {"send", "poll"}
            /\ arduino = "open"
            /\ Stepped(f)
            => pc'[f] = "scan"]_vars
    /\ [][dbpc = "write" /\ arduino = "open" /\ dbpc' # dbpc
            => dbpc' = "scan"]_vars
    /\ [][\A f \in Fg : pc'[f] = "scan" /\ pc[f] # "scan"
            => pc[f] \in {"send", "poll"} /\ arduino = "open"]_vars
    /\ [][dbpc' = "scan" /\ dbpc # "scan"
            => dbpc = "write" /\ arduino = "open"]_vars

(***************************************************************************)
(* C16: every frame written to the database or returned by a handler was   *)
(* decoded from a line that starts with V00=, ends with ";", has at least  *)
(* 28 segments and is longer than 168 and shorter than 215 characters.     *)
(* outputIsValid of main.go has no upper bound: violated in that build.    *)
(***************************************************************************)
boundedLines ==
    {id \in DeviceLines :
        /\ WellFormed(LineOf(id))
        /\ Len(TextOf(id)) > 168
        /\ Len(TextOf(id)) < 215}

C16_FramesFromBoundedLines ==
    /\ \A i \in 1..Len(sink) : sink[i] \in boundedLines
    /\ \A f \in Fg : \A i \in 1..Len(resp[f]) :
           resp[f][i].kind = "frame" => resp[f][i].body \in boundedLines

(***************************************************************************)
(* C18: a Set request writes at most one body, and a Set request that has  *)
(* completed has written exactly one: an error message or one frame.       *)
(* SetHandler of handlers.go writes the error of a failed Write and goes   *)
(* on to poll: violated in that build.                                     *)
(***************************************************************************)
C18_OneBody ==
    \A f \in Fg : req[f] \in GoodRequests \cup BadRequests =>
        /\ Len(resp[f]) <= 1
        /\ pc[f] = "done" => Len(resp[f]) = 1

(***************************************************************************)
(* C19: the validation accepts a toggle exactly when its value is empty,   *)
(* and rejects a level or a threshold whose value is empty; so a request   *)
(* that passes the validation and enters the level branch carries a value  *)
(* that ParseInt accepts.                                                  *)
(***************************************************************************)
C19_ValuePresenceMatchesClass ==
    fn.done /\ fn.call.kind = "presence" =>
        LET c == fn.call
            toggle == c.p \in {<<"P","U","M","P","_","O","N">>,
                               <<"P","U","M","P","_","O","F","F">>}
        IN  /\ toggle => (fn.ok <=> c.text = <<>>)
            /\ ~toggle /\ c.text = <<>> => ~fn.ok
            /\ fn.ok /\ fn.level => fn.parses

\* PUMP_ON with the value "1" is rejected
C19_Witness ==
    /\ fn.done /\ fn.call.kind = "presence"
    /\ fn.call.p = <<"P","U","M","P","_","O","N">>
    /\ fn.call.text = <<"1">>
    /\ ~fn.ok

(***************************************************************************)
(* SpecLive: the program with the device of a liveness hypothesis and fair *)
(* scheduling.  The port never fails; every <GET_ALL;> is answered with a  *)
(* snapshot; once the device has settled, the snapshot a request reads     *)
(* shows the state that request asks for.  The Go scheduler runs every     *)
(* goroutine that can take a step (weak fairness of each step); the        *)
(* device settles at last.                                                 *)
(***************************************************************************)
\* the snapshots the device may answer the <GET_ALL;> of request r with
LiveLines(r) ==
    {l \in snapshotsOf[build] : settled => confirmed(r, answerOf[l].res)}

LiveScan(f) == Scan(f) /\ out'[f] \in LiveLines(req[f])

LiveDbScan == DbScan /\ dbOut' \in snapshotsOf[build]

\* the device reaches the requested state and stays in it
Settle ==
    /\ ~crashed
    /\ ~settled
    /\ settled' = TRUE
    /\ UNCHANGED <<build, fn, arduino, wire, crashed, dbVars, fgVars>>

\* with no request in flight the device may leave that state
Drift ==
    /\ ~crashed
    /\ settled
    /\ \A f \in Fg : pc[f] = "idle"
    /\ settled' = FALSE
    /\ UNCHANGED <<build, fn, arduino, wire, crashed, dbVars, fgVars>>

NextLive ==
    \/ \E f \in Fg : Receive(f)
    \/ \E f \in Fg : Send(f)
    \/ \E f \in Fg : PollWrite(f)
    \/ \E f \in Fg : LiveScan(f)
    \/ \E f \in Fg : Check(f)
    \/ \E f \in Fg : Finish(f)
    \/ DbWrite
    \/ LiveDbScan
    \/ DbCheck
    \/ Settle
    \/ Drift

Fairness ==
    /\ \A f \in Fg : /\ WF_vars(Send(f))
                     /\ WF_vars(PollWrite(f))
                     /\ WF_vars(LiveScan(f))
                     /\ WF_vars(Check(f))
    /\ WF_vars(DbWrite)
    /\ WF_vars(LiveDbScan)
    /\ WF_vars(DbCheck)
    /\ WF_vars(Settle)

SpecLive == Init /\ [][NextLive]_vars /\ Fairness

(***************************************************************************)
(* C17: with a device that answers every <GET_ALL;> with a snapshot and    *)
(* settles in the requested state, and with fair scheduling, every         *)
(* validated level or toggle request that is about to send its command     *)
(* writes its response at last, DB_routine running beside it.              *)
(* A failed database write of DB_routine ends the process (log.Fatal)      *)
(* while the request polls: violated.                                      *)
(***************************************************************************)
C17_SetEventuallyAnswered ==
    \A f \in Fg :
        (req[f] \in LevelRequests \cup ToggleRequests /\ pc[f] = "send")
            ~> (pc[f] = "done")

=============================================================================
